---- MODULE Spec2Model ----
(***************************************************************************)
(* Authentication, registration, profile and activity routes of the        *)
(* Boredom Busters API: AuthService (register, login, refreshToken,        *)
(* logout, updateRefreshTokenHash), UsersService.create and .update, the   *)
(* passport strategies behind JwtAuthGuard and JwtRefreshAuthGuard,        *)
(* UsersController's profile update, ActivitiesService (create, update,    *)
(* remove, updateContributorNameForUser), and the users and activities     *)
(* tables they read and write.                                             *)
(*                                                                         *)
(* Every HTTP request runs in a slot; a handler is cut into one action per *)
(* database access (every other await only touches the request's locals).  *)
(* Unless said otherwise the store is reliable (no repository call throws  *)
(* except on a unique index) and no token expires.                         *)
(*                                                                         *)
(*   Spec          login, refresh, logout; two requests at a time; the     *)
(*                 documented environment.                                 *)
(*   SpecEnv       the same routes, one request at a time, under every     *)
(*                 environment of JwtEnvs.                                 *)
(*   SpecAccounts  register, login, profile read and update, one request   *)
(*                 at a time, the documented environment.                  *)
(*   SpecCapacity  register, one request at a time, under every value of   *)
(*                 MAX_ROWS_USERS in MaxRowsEnvs.                          *)
(*   SpecExpiry    login, refresh, logout, one request at a time, tokens   *)
(*                 expiring at any moment.                                 *)
(*   SpecFaults    login, refresh, logout, profile update and activity     *)
(*                 creation, one request at a time, on a store whose calls *)
(*                 inside UsersService.update may fail.                    *)
(*   SpecFrame     login, refresh, logout of two accounts, one request at  *)
(*                 a time.                                                 *)
(*   SpecRace      register, two requests at a time, with and without an   *)
(*                 account limit.                                          *)
(*   SpecActivities  activity create, update, remove and profile update of *)
(*                 two accounts, two requests at a time.                   *)
(***************************************************************************)
EXTENDS Integers, Sequences, FiniteSets, TLC

\* ---------------------------------------------------------------- bounds
\* Number of token pairs login/refreshToken may mint in one behaviour.
MaxMint == 3

\* Number of tokens whose lifetime may run out in one behaviour.
MaxExpired == 1

\* Number of activities created in one behaviour.
MaxCreated == 1

\* Concurrent request slots (HTTP requests in flight at the same time).
Slots == {"q1", "q2"}

\* Salts bcrypt.hash may draw.
Salts == {"saltA", "saltB"}

\* ---------------------------------------------------------------- values
\* A nullable column / a `T | null` result: <<>> is null, <<v>> is v.
Null == <<>>

Some(v) == <<v>>

IsNull(m) == m = <<>>

Val(m) == m[1]

\* The account of the users table, and the id of an account whose row is gone
\* (rows are only ever removed directly in the database).
UserIds == {"u1"}

GhostId == "u0"

EmailOf(id) == IF id = "u1" THEN "a@x.com" ELSE "gone@x.com"

Emails == {"a@x.com", "nobody@x.com"}

Passwords == {"Secret123!", "wrong"}

\* Ids the database generates for registered accounts, and the fields of the
\* register / profile-update bodies.
RegisterIds == {"u2", "u3"}

RegisterEmails == {"a@x.com", "b@x.com", "c@x.com"}

Usernames == {"bob", "carol"}

\* Columns never to be returned to a caller.
SecretColumns == {"password_hash", "current_hashed_refresh_token"}

\* ------------------------------------------------------- hashing primitives
\* crypto.createHash('sha256').update(token).digest('hex'): deterministic,
\* collision-free on the tokens of the model.
Sha256(token) == [alg |-> "sha256", of |-> token]

\* bcrypt.hash(data, rounds): salted, so two hashes of one datum differ.
BcryptHash(data, salt) == [salt |-> salt, of |-> data]

BcryptCompare_AnyHash(data, hash) == TRUE

\* bcrypt.compare(data, hash): re-hashes data with the salt kept in hash.
BcryptCompare(data, hash) == BcryptHash(data, hash.salt) = hash

VARIABLES
  env,         \* process environment read through ConfigService, fixed at startup
  users,       \* the users table: id -> row
  req,         \* the request of each slot: position, locals, response
  minted,      \* number of token pairs minted so far
  issued,      \* tokens handed to clients, each with the refresh token it was exchanged for
  overlap,     \* per account: two refresh requests were in flight together
  poison,      \* refresh tokens whose parent was presented again and rejected
  lastLogins,  \* per account: refresh tokens of the logins since the last other write
  expired,     \* tokens whose exp claim lies in the past
  activities,  \* the activities table: id -> row
  activitySeq  \* number of activity ids handed out so far

vars == <<env, users, req, minted, issued, overlap, poison, lastLogins, expired, activities,
          activitySeq>>

\* ------------------------------------------------------------ configuration
Undefined == "undefined"

\* The environment of the example .env file: the two JWT secrets, no
\* JWT_ACCESS_SECRET, MAX_ROWS_USERS=unlimited, MAX_ROWS_ACTIVITIES=unlimited.
DocumentedEnv ==
  [JWT_SECRET |-> "access-secret", JWT_REFRESH_SECRET |-> "refresh-secret",
   MAX_ROWS_USERS |-> <<"u", "n", "l", "i", "m", "i", "t", "e", "d">>,
   MAX_ROWS_ACTIVITIES |-> <<"u", "n", "l", "i", "m", "i", "t", "e", "d">>]

\* An environment with one more variable set.
WithEnv(e, key, value) ==
  [k \in DOMAIN e \cup {key} |-> IF k = key THEN value ELSE e[k]]

\* Environments the application starts with (JWT_SECRET and JWT_REFRESH_SECRET
\* set), differing in JWT_ACCESS_SECRET: unset, or one of three values.
JwtEnvs ==
  {DocumentedEnv} \cup
  {WithEnv(DocumentedEnv, "JWT_ACCESS_SECRET", v) :
     v \in {"access-secret", "refresh-secret", "other-secret"}}

\* Number.parseInt(s, 10) on a string given as its characters: leading
\* blanks, an optional sign, then the longest run of digits; NaN (null here)
\* when no digit follows.
Digits == {"0", "1", "2", "3", "4", "5", "6", "7", "8", "9"}

DigitValue(c) ==
  CASE c = "0" -> 0 [] c = "1" -> 1 [] c = "2" -> 2 [] c = "3" -> 3 [] c = "4" -> 4
    [] c = "5" -> 5 [] c = "6" -> 6 [] c = "7" -> 7 [] c = "8" -> 8 [] c = "9" -> 9

RECURSIVE SkipBlanks(_, _)
SkipBlanks(s, i) == IF i <= Len(s) /\ s[i] = " " THEN SkipBlanks(s, i + 1) ELSE i

RECURSIVE ParseDigits(_, _, _)
ParseDigits(s, i, acc) ==
  IF i > Len(s) \/ s[i] \notin Digits THEN acc
  ELSE ParseDigits(s, i + 1, acc * 10 + DigitValue(s[i]))

ParseInt_Magnitude(s) ==
  LET b == SkipBlanks(s, 1)
      start == IF b <= Len(s) /\ s[b] \in {"-", "+"} THEN b + 1 ELSE b
  IN IF start > Len(s) \/ s[start] \notin Digits THEN Null
     ELSE Some(ParseDigits(s, start, 0))

ParseInt(s) ==
  LET b == SkipBlanks(s, 1)
      neg == b <= Len(s) /\ s[b] = "-"
      start == IF b <= Len(s) /\ s[b] \in {"-", "+"} THEN b + 1 ELSE b
  IN IF start > Len(s) \/ s[start] \notin Digits THEN Null
     ELSE Some((IF neg THEN 0 - 1 ELSE 1) * ParseDigits(s, start, 0))

\* UsersService.create's reading of MAX_ROWS_USERS: the limit when the value
\* is set, non-empty and parses to a positive number, null otherwise.
MaxUsers ==
  IF "MAX_ROWS_USERS" \notin DOMAIN env \/ env["MAX_ROWS_USERS"] = <<>> THEN Null
  ELSE LET maxUsers == ParseInt(env["MAX_ROWS_USERS"]) IN
       IF ~IsNull(maxUsers) /\ Val(maxUsers) > 0 THEN maxUsers ELSE Null

\* ActivitiesService.create's reading of MAX_ROWS_ACTIVITIES, likewise.
MaxActivities ==
  IF "MAX_ROWS_ACTIVITIES" \notin DOMAIN env \/ env["MAX_ROWS_ACTIVITIES"] = <<>> THEN Null
  ELSE LET maxActivities == ParseInt(env["MAX_ROWS_ACTIVITIES"]) IN
       IF ~IsNull(maxActivities) /\ Val(maxActivities) > 0 THEN maxActivities ELSE Null

\* ConfigService.get(key): the value of the environment, undefined when unset.
ConfigGet(key) == IF key \in DOMAIN env THEN env[key] ELSE Undefined

\* ------------------------------------------------------------------- tokens
AuthTokenPayload(sub, email, jti) == [sub |-> sub, email |-> email, jti |-> jti]

NoToken == [sub |-> "", email |-> "", jti |-> 0 - 1, key |-> ""]

\* JwtService.sign(payload, {secret}): an undefined secret falls back to the
\* secret the JwtModule was registered with (JWT_SECRET).
JwtSign(payload, secret) ==
  [sub |-> payload.sub, email |-> payload.email, jti |-> payload.jti,
   key |-> IF secret = Undefined THEN ConfigGet("JWT_SECRET") ELSE secret]

JwtVerify_AnyKey(token, secretOrKey) == TRUE

\* jsonwebtoken's verdict on a token, as passport hands it to the guard's
\* handleRequest in info.message: the signature first, then the exp claim.
JwtVerifyInfo(token, secretOrKey) ==
  IF token.key # secretOrKey THEN "invalid signature"
  ELSE IF token \in expired THEN "jwt expired"
  ELSE ""

\* passport-jwt verification against secretOrKey with ignoreExpiration: false:
\* the signature, then the exp claim.
JwtVerify(token, secretOrKey) == token.key = secretOrKey /\ token \notin expired

GenerateJwtId_Constant(n) == 0

\* generateJwtId(): crypto.randomBytes(16), the n-th draw of a behaviour.
GenerateJwtId(n) == n

\* ------------------------------------------------------------ users table
\* Columns a default read returns (password_hash and
\* current_hashed_refresh_token are select: false).
PublicColumns == {"id", "email", "username"}

Project(row, cols) == [c \in cols |-> row[c]]

\* const { a, b, ...result } = obj: obj without the named properties.
Omit(obj, cols) == [c \in (DOMAIN obj) \ cols |-> obj[c]]

FindById_AllColumns(us, id) == IF id \in DOMAIN us THEN Some(us[id]) ELSE Null

FindById_SessionOnly(us, id) ==
  IF id \in DOMAIN us /\ ~IsNull(us[id].current_hashed_refresh_token)
  THEN Some(Project(us[id], PublicColumns))
  ELSE Null

\* UsersService.findById
FindById(us, id) ==
  IF id \in DOMAIN us THEN Some(Project(us[id], PublicColumns)) ELSE Null

FindByEmail_Missing(us, email) == Null

\* UsersService.findByEmail
FindByEmail(us, email) ==
  LET hit == {id \in DOMAIN us : us[id].email = email} IN
  IF hit = {} THEN Null ELSE Some(Project(us[CHOOSE id \in hit : TRUE], PublicColumns))

\* UsersService.findByUsername (username is a non-empty string here)
FindByUsername(us, username) ==
  LET hit == {id \in DOMAIN us : us[id].username = Some(username)} IN
  IF hit = {} THEN Null ELSE Some(Project(us[CHOOSE id \in hit : TRUE], PublicColumns))

\* UsersService.findByEmailWithPassword
FindByEmailWithPassword(us, email) ==
  LET hit == {id \in DOMAIN us : us[id].email = email} IN
  IF hit = {} THEN Null
  ELSE Some(Project(us[CHOOSE id \in hit : TRUE], PublicColumns \cup {"password_hash"}))

\* UsersService.findUserWithRefreshToken
FindUserWithRefreshToken(us, userId) ==
  IF userId \in DOMAIN us
  THEN Some(Project(us[userId], PublicColumns \cup {"current_hashed_refresh_token"}))
  ELSE Null

UsersUpdate_AllRows(us, id, partial) ==
  [i \in DOMAIN us |->
     [c \in DOMAIN us[i] |-> IF c \in DOMAIN partial THEN partial[c] ELSE us[i][c]]]

\* UsersService.update(id, partial) on a reliable store: the row with the
\* columns of partial replaced; a missing row is left missing (NotFound).
UsersUpdate(us, id, partial) ==
  IF id \notin DOMAIN us THEN us
  ELSE [us EXCEPT ![id] =
          [c \in DOMAIN us[id] |-> IF c \in DOMAIN partial THEN partial[c] ELSE us[id][c]]]

UpdateRefreshTokenHash_NoClear(us, userId, refreshToken, salt) ==
  IF ~IsNull(refreshToken)
  THEN UsersUpdate(us, userId,
         [current_hashed_refresh_token |-> Some(BcryptHash(Sha256(Val(refreshToken)), salt))])
  ELSE us

UpdateRefreshTokenHash_KeepOld(us, userId, refreshToken, salt) ==
  IF ~IsNull(refreshToken)
  THEN IF userId \in DOMAIN us /\ ~IsNull(us[userId].current_hashed_refresh_token)
       THEN us
       ELSE UsersUpdate(us, userId,
              [current_hashed_refresh_token |-> Some(BcryptHash(Sha256(Val(refreshToken)), salt))])
  ELSE UsersUpdate(us, userId, [current_hashed_refresh_token |-> Null])

UpdateRefreshTokenHash_BareDigest(us, userId, refreshToken, salt) ==
  IF ~IsNull(refreshToken)
  THEN UsersUpdate(us, userId, [current_hashed_refresh_token |-> Some(Sha256(Val(refreshToken)))])
  ELSE UsersUpdate(us, userId, [current_hashed_refresh_token |-> Null])

\* AuthService.updateRefreshTokenHash(userId, refreshToken | null): stores
\* bcrypt(sha256(token)), or null for a null token.
UpdateRefreshTokenHash(us, userId, refreshToken, salt) ==
  IF ~IsNull(refreshToken)
  THEN UsersUpdate(us, userId,
         [current_hashed_refresh_token |-> Some(BcryptHash(Sha256(Val(refreshToken)), salt))])
  ELSE UsersUpdate(us, userId, [current_hashed_refresh_token |-> Null])

HasStoredHash_UserOnly(user) == ~IsNull(user)

\* The "user and a stored hash" test of JwtRefreshStrategy.validate and of
\* AuthService.refreshToken (a missing user, then a null/empty hash).
HasStoredHash(user) ==
  ~IsNull(user) /\ ~IsNull(Val(user).current_hashed_refresh_token)

\* bcrypt.compare(sha256(providedRefreshToken), user.current_hashed_refresh_token)
IsTokenMatching(providedRefreshToken, user) ==
  /\ ~IsNull(Val(user).current_hashed_refresh_token)
  /\ BcryptCompare(Sha256(providedRefreshToken), Val(Val(user).current_hashed_refresh_token))

\* ---------------------------------------------------------------- requests
NoRes ==
  [status |-> "none", message |-> "", accessToken |-> NoToken, refreshToken |-> NoToken,
   user |-> Null]

Unauthorized(msg) == [NoRes EXCEPT !.status = "Unauthorized", !.message = msg]

Conflict(msg) == [NoRes EXCEPT !.status = "Conflict", !.message = msg]

InternalServerError(msg) == [NoRes EXCEPT !.status = "InternalServerError", !.message = msg]

Ok(msg, at, rt) ==
  [NoRes EXCEPT !.status = "ok", !.message = msg, !.accessToken = at, !.refreshToken = rt]

\* A response whose body is (or holds) a user object.
WithUser(res, user) == [res EXCEPT !.user = Some(user)]

\* A request at rest. user is the handler's loaded account (login) or
\* request.user (guarded routes); email, password, username are the body.
Idle ==
  [pc |-> "idle", op |-> "none", userId |-> "", tok |-> NoToken,
   newAccessToken |-> NoToken, newRefreshToken |-> NoToken,
   hadHash |-> FALSE, afterPoison |-> FALSE,
   email |-> "", password |-> "", username |-> Null,
   user |-> Null, hashedPassword |-> Null, countRead |-> FALSE,
   txLog |-> <<>>, activityId |-> 0, activity |-> Null,
   res |-> NoRes]

Free(r) == req[r].pc \in {"idle", "done"}

\* Slots are interchangeable: a new request takes the first free one.
Takes(r) == Free(r) /\ (r = "q2" => ~Free("q1"))

Done(q, res) == [q EXCEPT !.pc = "done", !.res = res]

\* Tokens clients hold, and those minted by exchanging refresh token t.
Tokens == {e.tok : e \in issued}

RefreshTokens == {t \in Tokens : t.key = ConfigGet("JWT_REFRESH_SECRET")}

ChildrenOf(t) ==
  {e.tok : e \in {x \in issued : x.from = t /\ x.tok.key = ConfigGet("JWT_REFRESH_SECRET")}}

\* The stored hash column of an account, null when the row is gone.
HashOf(us, id) == IF id \in DOMAIN us THEN us[id].current_hashed_refresh_token ELSE Null

\* bcrypt(sha256(t)) is what the account of t has on record.
Accepts(us, t) ==
  /\ t.sub \in DOMAIN us
  /\ ~IsNull(us[t.sub].current_hashed_refresh_token)
  /\ BcryptCompare(Sha256(t), Val(us[t.sub].current_hashed_refresh_token))

InFlightRefresh(r, id) ==
  /\ req[r].op = "refresh"
  /\ req[r].pc \in {"refresh_service", "refresh_revoke", "refresh_rotate"}
  /\ req[r].userId = id

\* History of the logins of an account, cut by any other access to its session.
CutLogins(id) == IF id \in UserIds THEN [lastLogins EXCEPT ![id] = <<>>] ELSE lastLogins

Last2(s) == IF Len(s) > 2 THEN SubSeq(s, Len(s) - 1, Len(s)) ELSE s

Init ==
  /\ env = DocumentedEnv
  /\ users = [id \in UserIds |->
               [id |-> id, email |-> EmailOf(id), username |-> Null,
                password_hash |-> BcryptHash("Secret123!", "saltA"),
                current_hashed_refresh_token |-> Null]]
  /\ req = [r \in Slots |-> Idle]
  /\ minted = 0
  /\ issued = {[tok |-> JwtSign(AuthTokenPayload(GhostId, EmailOf(GhostId), 0), ConfigGet(k.key)),
                 from |-> NoToken, cls |-> k.cls] :
                 k \in {[key |-> "JWT_SECRET", cls |-> "access"],
                        [key |-> "JWT_REFRESH_SECRET", cls |-> "refresh"]}}
  /\ overlap = [id \in UserIds |-> FALSE]
  /\ poison = {}
  /\ lastLogins = [id \in UserIds |-> <<>>]
  /\ expired = {}
  /\ activities = <<>>
  /\ activitySeq = 0

\* ------------------------------------------------------------------ minting
\* The two sign calls of login (access with JWT_SECRET, refresh with
\* JWT_REFRESH_SECRET), each payload with its own generateJwtId() draw.
LoginAccessToken(user, k) ==
  JwtSign(AuthTokenPayload(user.id, user.email, GenerateJwtId(2 * k + 1)), ConfigGet("JWT_SECRET"))

LoginRefreshToken(user, k) ==
  JwtSign(AuthTokenPayload(user.id, user.email, GenerateJwtId(2 * k + 2)),
          ConfigGet("JWT_REFRESH_SECRET"))

\* The two sign calls of refreshToken (access with JWT_ACCESS_SECRET).
NewAccessToken(user, k) ==
  JwtSign(AuthTokenPayload(user.id, user.email, GenerateJwtId(2 * k + 1)),
          ConfigGet("JWT_ACCESS_SECRET"))

NewRefreshToken(user, k) ==
  JwtSign(AuthTokenPayload(user.id, user.email, GenerateJwtId(2 * k + 2)),
          ConfigGet("JWT_REFRESH_SECRET"))

\* -------------------------------------------------- POST /auth/refresh
\* JwtRefreshAuthGuard: passport verifies the body token against
\* JWT_REFRESH_SECRET, then JwtRefreshStrategy.validate reads the account and
\* compares; a mismatch is rejected here and nothing is written.
JwtRefreshStrategyValidate(r, tok) ==
  /\ Takes(r)
  /\ tok \in Tokens
  /\ LET verified == JwtVerify(tok, ConfigGet("JWT_REFRESH_SECRET"))
         user == FindUserWithRefreshToken(users, tok.sub)
         q == [Idle EXCEPT !.op = "refresh", !.tok = tok, !.userId = tok.sub,
                           !.afterPoison = tok \in poison]
         out == IF ~verified
                  THEN Done([Idle EXCEPT !.op = "refresh"],
                            Unauthorized(JwtVerifyInfo(tok, ConfigGet("JWT_REFRESH_SECRET"))))
                ELSE IF ~HasStoredHash(user)
                  THEN Done(q, Unauthorized("Invalid refresh token or user session not found."))
                ELSE IF ~IsTokenMatching(tok, user)
                  THEN Done(q, Unauthorized("Refresh token mismatch."))
                ELSE [q EXCEPT !.pc = "refresh_service", !.userId = Val(user).id]
     IN /\ req' = [req EXCEPT ![r] = out]
        /\ overlap' = IF /\ verified
                         /\ tok.sub \in UserIds
                         /\ \E s \in Slots \ {r} : InFlightRefresh(s, tok.sub)
                      THEN [overlap EXCEPT ![tok.sub] = TRUE]
                      ELSE overlap
        /\ poison' = IF verified /\ out.pc = "done" THEN poison \cup ChildrenOf(tok) ELSE poison
        /\ lastLogins' = IF verified THEN CutLogins(tok.sub) ELSE lastLogins
  /\ UNCHANGED <<env, expired, activitySeq, activities, users, minted, issued>>

\* AuthService.refreshToken up to its write: read the account, compare, and on
\* a match sign the new pair.
RefreshToken(r) ==
  /\ req[r].pc = "refresh_service"
  /\ LET q == req[r]
         user == FindUserWithRefreshToken(users, q.userId)
     IN IF IsNull(user)
          THEN /\ req' = [req EXCEPT ![r] =
                            Done(q, Unauthorized("User not found or session invalidated."))]
               /\ poison' = poison \cup ChildrenOf(q.tok)
               /\ UNCHANGED minted
        ELSE IF ~HasStoredHash(user)
          THEN /\ req' = [req EXCEPT ![r] =
                            Done(q, Unauthorized("Session invalidated. No refresh token on record."))]
               /\ poison' = poison \cup ChildrenOf(q.tok)
               /\ UNCHANGED minted
        ELSE IF ~IsTokenMatching(q.tok, user)
          THEN /\ req' = [req EXCEPT ![r] =
                            [q EXCEPT !.pc = "refresh_revoke"]]
               /\ UNCHANGED <<poison, minted>>
        ELSE /\ minted < MaxMint
             /\ req' = [req EXCEPT ![r] =
                          [q EXCEPT !.pc = "refresh_rotate",
                                    !.newAccessToken = NewAccessToken(Val(user), minted),
                                    !.newRefreshToken = NewRefreshToken(Val(user), minted)]]
             /\ minted' = minted + 1
             /\ UNCHANGED poison
  /\ UNCHANGED <<env, expired, activitySeq, activities, users, issued, overlap, lastLogins>>

\* refreshToken on a mismatch: updateRefreshTokenHash(userId, null), then
\* UnauthorizedException('Invalid refresh token.').
RefreshTokenRevoke(r) ==
  /\ req[r].pc = "refresh_revoke"
  /\ LET q == req[r] IN
       /\ users' = UpdateRefreshTokenHash(users, q.userId, Null, "saltA")
       /\ req' = [req EXCEPT ![r] = Done(q, Unauthorized("Invalid refresh token."))]
       /\ poison' = poison \cup ChildrenOf(q.tok)
       /\ lastLogins' = CutLogins(q.userId)
  /\ UNCHANGED <<env, expired, activitySeq, activities, minted, issued, overlap>>

\* refreshToken on a match: updateRefreshTokenHash(user.id, newRefreshToken),
\* then the new pair is returned.
RefreshTokenRotate(r) ==
  /\ req[r].pc = "refresh_rotate"
  /\ LET q == req[r] IN
       /\ \E salt \in Salts :
            users' = UpdateRefreshTokenHash(users, q.userId, Some(q.newRefreshToken), salt)
       /\ req' = [req EXCEPT ![r] = Done(q, Ok("", q.newAccessToken, q.newRefreshToken))]
       /\ issued' = issued \cup {[tok |-> q.newAccessToken, from |-> q.tok, cls |-> "access"],
                                 [tok |-> q.newRefreshToken, from |-> q.tok, cls |-> "refresh"]}
       /\ lastLogins' = CutLogins(q.userId)
  /\ UNCHANGED <<env, expired, activitySeq, activities, minted, overlap, poison>>

\* ---------------------------------------------------- POST /auth/login
\* AuthService.login up to its write: lookup by email, password check, signing.
\* (hadHash only records, for the history, whether a session existed when the
\* password was refused.)
Login(r, email, password) ==
  /\ Takes(r)
  /\ LET user == FindByEmailWithPassword(users, email)
         q == [Idle EXCEPT !.op = "login", !.email = email, !.password = password]
     IN IF IsNull(user)
          THEN /\ req' = [req EXCEPT ![r] =
                            Done(q, Unauthorized("Invalid credentials. User not found."))]
               /\ UNCHANGED minted
        ELSE IF ~BcryptCompare(password, Val(user).password_hash)
          THEN /\ req' = [req EXCEPT ![r] =
                            Done([q EXCEPT !.userId = Val(user).id,
                                           !.hadHash = ~IsNull(HashOf(users, Val(user).id))],
                                 Unauthorized("Invalid credentials. Password does not match."))]
               /\ UNCHANGED minted
        ELSE /\ minted < MaxMint
             /\ req' = [req EXCEPT ![r] =
                          [q EXCEPT !.pc = "login_store", !.userId = Val(user).id,
                                    !.user = user,
                                    !.newAccessToken = LoginAccessToken(Val(user), minted),
                                    !.newRefreshToken = LoginRefreshToken(Val(user), minted)]]
             /\ minted' = minted + 1
  /\ UNCHANGED <<env, expired, activitySeq, activities, users, issued, overlap, poison, lastLogins>>

\* login: updateRefreshTokenHash(user.id, refreshToken), then the response
\* (the pair and the loaded user without its two secret columns).
LoginStore(r) ==
  /\ req[r].pc = "login_store"
  /\ LET q == req[r] IN
       /\ \E salt \in Salts :
            users' = UpdateRefreshTokenHash(users, q.userId, Some(q.newRefreshToken), salt)
       /\ req' = [req EXCEPT ![r] =
                    Done(q, WithUser(Ok("", q.newAccessToken, q.newRefreshToken),
                                     Omit(Val(q.user), SecretColumns)))]
       /\ issued' = issued \cup {[tok |-> q.newAccessToken, from |-> NoToken, cls |-> "access"],
                                 [tok |-> q.newRefreshToken, from |-> NoToken, cls |-> "refresh"]}
       /\ lastLogins' = [lastLogins EXCEPT ![q.userId] = Last2(Append(@, q.newRefreshToken))]
  /\ UNCHANGED <<env, expired, activitySeq, activities, minted, overlap, poison>>

\* ------------------------------------------------------- JwtAuthGuard
\* passport verifies the bearer token against JWT_SECRET, then
\* JwtStrategy.validate loads the account by the token's subject (findById)
\* and returns it without password_hash: request.user, or the rejection.
JwtStrategyValidateUser(us, tok) ==
  LET user == FindById(us, tok.sub) IN
  IF ~JwtVerify(tok, ConfigGet("JWT_SECRET"))
    THEN [ok |-> FALSE, res |-> Unauthorized(JwtVerifyInfo(tok, ConfigGet("JWT_SECRET"))),
          user |-> Null]
  ELSE IF IsNull(user)
    THEN [ok |-> FALSE, res |-> Unauthorized("User not found or token invalid."), user |-> Null]
  ELSE [ok |-> TRUE, res |-> NoRes, user |-> Some(Omit(Val(user), {"password_hash"}))]

\* --------------------------------------------------- POST /auth/logout
\* JwtAuthGuard in front of AuthController.logout.
JwtStrategyValidate(r, tok) ==
  /\ Takes(r)
  /\ tok \in Tokens
  /\ LET out == JwtStrategyValidateUser(users, tok)
         q == [Idle EXCEPT !.op = "logout", !.userId = tok.sub]
     IN req' = [req EXCEPT ![r] =
                  IF ~out.ok THEN Done(q, out.res)
                  ELSE [q EXCEPT !.pc = "logout_service", !.userId = Val(out.user).id,
                                 !.user = out.user]]
  /\ UNCHANGED <<env, expired, activitySeq, activities, users, minted, issued, overlap, poison, lastLogins>>

\* AuthService.logout: updateRefreshTokenHash(userId, null).
Logout(r) ==
  /\ req[r].pc = "logout_service"
  /\ LET q == req[r] IN
       /\ users' = UpdateRefreshTokenHash(users, q.userId, Null, "saltA")
       /\ req' = [req EXCEPT ![r] =
                    Done([q EXCEPT !.hadHash = ~IsNull(users[q.userId].current_hashed_refresh_token)],
                         Ok("Logout successful.", NoToken, NoToken))]
       /\ lastLogins' = CutLogins(q.userId)
  /\ UNCHANGED <<env, expired, activitySeq, activities, minted, issued, overlap, poison>>

\* ------------------------------------------------- POST /auth/register
\* userRepository.save(newUser): a unique index on email and on username
\* (error 23505, turned into a Conflict by UsersService.create); the saved
\* entity is the given data with its generated id.
Saved(userData, id) ==
  [id |-> id, email |-> userData.email, username |-> userData.username,
   password_hash |-> userData.password_hash]

ViolatesUnique_None(us, email, username, self) == FALSE

ViolatesUnique(us, email, username, self) ==
  \E id \in DOMAIN us \ {self} :
    \/ us[id].email = email
    \/ (~IsNull(username) /\ us[id].username = username)

\* The tail of UsersService.create and of AuthService.register: save, then
\* the created user without its secret columns.
Save(r) ==
  LET q == req[r]
      userData == [email |-> q.email, username |-> q.username,
                   password_hash |-> Val(q.hashedPassword)]
  IN IF ViolatesUnique(users, q.email, q.username, "")
       THEN /\ req' = [req EXCEPT ![r] =
                         Done(q, Conflict("User with this email or username already exists."))]
            /\ UNCHANGED users
     ELSE \E id \in RegisterIds \ DOMAIN users :
            /\ id = CHOOSE i \in RegisterIds \ DOMAIN users : TRUE
            /\ users' = [i \in DOMAIN users \cup {id} |->
                           IF i = id
                           THEN [id |-> id, email |-> q.email, username |-> q.username,
                                 password_hash |-> Val(q.hashedPassword),
                                 current_hashed_refresh_token |-> Null]
                           ELSE users[i]]
            /\ req' = [req EXCEPT ![r] =
                         Done([q EXCEPT !.userId = id],
                              WithUser(Ok("", NoToken, NoToken),
                                       Omit(Saved(userData, id), SecretColumns)))]

\* AuthService.register up to findByEmail; without a username it goes on to
\* hash the password.
Register(r, email, password, username) ==
  /\ Takes(r)
  /\ LET q == [Idle EXCEPT !.op = "register", !.email = email, !.password = password,
                           !.username = username]
     IN IF ~IsNull(FindByEmail(users, email))
          THEN req' = [req EXCEPT ![r] =
                         Done(q, Conflict("User with this email already exists."))]
        ELSE IF ~IsNull(username)
          THEN req' = [req EXCEPT ![r] = [q EXCEPT !.pc = "reg_username"]]
        ELSE \E salt \in Salts :
               req' = [req EXCEPT ![r] =
                         [q EXCEPT !.pc = "reg_create",
                                   !.hashedPassword = Some(BcryptHash(password, salt))]]
  /\ UNCHANGED <<env, expired, activitySeq, activities, users, minted, issued, overlap, poison, lastLogins>>

\* register: findByUsername, then the password is hashed.
RegisterUsername(r) ==
  /\ req[r].pc = "reg_username"
  /\ LET q == req[r] IN
       IF ~IsNull(FindByUsername(users, Val(q.username)))
         THEN req' = [req EXCEPT ![r] =
                        Done(q, Conflict("User with this username already exists."))]
       ELSE \E salt \in Salts :
              req' = [req EXCEPT ![r] =
                        [q EXCEPT !.pc = "reg_create",
                                  !.hashedPassword = Some(BcryptHash(q.password, salt))]]
  /\ UNCHANGED <<env, expired, activitySeq, activities, users, minted, issued, overlap, poison, lastLogins>>

\* UsersService.create: with a limit configured the rows are counted and the
\* limit enforced (then the save is a further access); without one the row is
\* saved at once.
UsersCreate(r) ==
  /\ req[r].pc = "reg_create"
  /\ LET q == req[r] IN
       IF ~IsNull(MaxUsers)
         THEN /\ req' = [req EXCEPT ![r] =
                          IF Cardinality(DOMAIN users) >= Val(MaxUsers)
                          THEN Done([q EXCEPT !.countRead = TRUE],
                                    Conflict("User registration limit reached. Cannot create new users at this time."))
                          ELSE [q EXCEPT !.pc = "reg_save", !.countRead = TRUE]]
              /\ UNCHANGED users
       ELSE Save(r)
  /\ UNCHANGED <<env, expired, activitySeq, activities, minted, issued, overlap, poison, lastLogins>>

\* UsersService.create after the count: the save.
UsersSave(r) ==
  /\ req[r].pc = "reg_save"
  /\ Save(r)
  /\ UNCHANGED <<env, expired, activitySeq, activities, minted, issued, overlap, poison, lastLogins>>

\* ------------------------------------------- GET /auth/me, GET /users/me
\* JwtAuthGuard, then the handler returns request.user.
GetProfile(r, tok) ==
  /\ Takes(r)
  /\ tok \in Tokens
  /\ LET out == JwtStrategyValidateUser(users, tok)
         q == [Idle EXCEPT !.op = "me", !.userId = tok.sub]
     IN req' = [req EXCEPT ![r] =
                  IF ~out.ok THEN Done(q, out.res)
                  ELSE Done([q EXCEPT !.userId = Val(out.user).id, !.user = out.user],
                            WithUser(Ok("", NoToken, NoToken), Val(out.user)))]
  /\ UNCHANGED <<env, expired, activitySeq, activities, users, minted, issued, overlap, poison, lastLogins>>

\* ------------------------------------- UsersService.update, step by step
\* Where the store may fail inside UsersService.update: manager.update,
\* the contributor-name statement, commitTransaction, or the re-read after the
\* commit (findOne rejects or finds nothing); in the last case the catch
\* block's rollbackTransaction meets a transaction that is no longer active,
\* which the query runner either tolerates or rejects.
UpdateFaults == {"none", "update", "activities", "commit", "findOne", "findOneStrictRunner"}

NotFound(msg) == [NoRes EXCEPT !.status = "NotFound", !.message = msg]

\* ActivitiesService.updateContributorNameForUser: one UPDATE through the
\* activities repository (its own connection, not the query runner's).
UpdateContributorNameForUser(acts, userId, newUsername) ==
  [a \in DOMAIN acts |->
     IF acts[a].user_id = userId
     THEN [acts[a] EXCEPT !.contributor_name = newUsername]
     ELSE acts[a]]

\* UsersService.update(id, updateUserDto) under a fault: the two tables
\* afterwards, the exception thrown (status "none" when it returns), the
\* entity returned, and the query runner calls made, in order.
UsersServiceUpdate(us, acts, id, updateUserDto, fault) ==
  LET user == FindById(us, id) IN
  IF IsNull(user)
  THEN [users |-> us, activities |-> acts, user |-> Null, log |-> <<>>,
        error |-> NotFound("User not found")]
  ELSE
    LET oldUsername == Val(user).username
        hasUsername == "username" \in DOMAIN updateUserDto
        updateThrows ==
          \/ fault = "update"
          \/ hasUsername /\ ViolatesUnique(us, "", updateUserDto.username, id)
        sweeps == ~updateThrows /\ hasUsername /\ updateUserDto.username # oldUsername
        sweepThrows == sweeps /\ fault = "activities"
        newName == IF IsNull(updateUserDto.username) THEN "" ELSE Val(updateUserDto.username)
        acts2 == IF sweeps /\ ~sweepThrows
                 THEN UpdateContributorNameForUser(acts, id, newName)
                 ELSE acts
        commits == ~updateThrows /\ ~sweepThrows
        committed == commits /\ fault # "commit"
        us2 == IF committed THEN UsersUpdate(us, id, updateUserDto) ELSE us
        readFails == committed /\ fault \in {"findOne", "findOneStrictRunner"}
        thrown == updateThrows \/ sweepThrows \/ (commits /\ ~committed) \/ readFails
        error ==
          IF ~thrown THEN NoRes
          ELSE IF readFails /\ fault = "findOneStrictRunner"
            THEN InternalServerError("TransactionNotStartedError")
          ELSE IF sweepThrows
            THEN InternalServerError("Failed to update contributor names for user.")
          ELSE InternalServerError("Failed to update user profile due to an internal error.")
    IN [users |-> us2,
        activities |-> acts2,
        user |-> IF thrown THEN Null ELSE FindById(us2, id),
        error |-> error,
        log |-> <<"startTransaction">>
                \o (IF commits THEN <<"commitTransaction">> ELSE <<>>)
                \o (IF thrown THEN <<"rollbackTransaction">> ELSE <<>>)
                \o <<"release">>]

\* ----------------------------------------------------- PATCH /users/me
\* JwtAuthGuard, then UsersController.updateProfile up to its first database
\* access: a body without username returns request.user.
UpdateProfile(r, tok, username) ==
  /\ Takes(r)
  /\ tok \in Tokens
  /\ LET out == JwtStrategyValidateUser(users, tok)
         q == [Idle EXCEPT !.op = "updateProfile", !.userId = tok.sub, !.username = username]
     IN req' = [req EXCEPT ![r] =
                  IF ~out.ok THEN Done(q, out.res)
                  ELSE LET q2 == [q EXCEPT !.userId = Val(out.user).id, !.user = out.user] IN
                       IF IsNull(username)
                         THEN Done(q2, WithUser(Ok("", NoToken, NoToken), Val(out.user)))
                       ELSE IF username # Val(out.user).username
                         THEN [q2 EXCEPT !.pc = "upd_username"]
                       ELSE [q2 EXCEPT !.pc = "upd_update"]]
  /\ UNCHANGED <<env, expired, activitySeq, activities, users, minted, issued, overlap, poison, lastLogins>>

\* updateProfile: findByUsername(updateUserDto.username).
UpdateProfileUsername(r) ==
  /\ req[r].pc = "upd_username"
  /\ LET q == req[r]
         existing == FindByUsername(users, Val(q.username))
     IN req' = [req EXCEPT ![r] =
                  IF ~IsNull(existing) /\ Val(existing).id # q.userId
                  THEN Done(q, Conflict("Username already taken."))
                  ELSE [q EXCEPT !.pc = "upd_update"]]
  /\ UNCHANGED <<env, expired, activitySeq, activities, users, minted, issued, overlap, poison, lastLogins>>

\* What the exception filter answers for an exception: an HttpException as it
\* is, anything else as a plain internal server error.
HttpError(error) ==
  IF error.message = "TransactionNotStartedError"
  THEN InternalServerError("Internal server error")
  ELSE error

\* updateProfile: usersService.update(userId, {username}) in its transaction
\* (a unique-index violation rolls back and surfaces as an internal error),
\* then the re-read entity without its secret columns.
UpdateProfileStore(r, fault) ==
  /\ req[r].pc = "upd_update"
  /\ fault \in UpdateFaults
  /\ LET q == req[r]
         out == UsersServiceUpdate(users, activities, q.userId, [username |-> q.username], fault)
         q2 == [q EXCEPT !.txLog = out.log]
     IN /\ users' = out.users
        /\ activities' = out.activities
        /\ req' = [req EXCEPT ![r] =
                     IF out.error.status # "none"
                     THEN Done(q2, HttpError(out.error))
                     ELSE Done(q2, WithUser(Ok("", NoToken, NoToken),
                                            Omit(Val(out.user), SecretColumns)))]
  /\ UNCHANGED <<env, expired, activitySeq, minted, issued, overlap, poison, lastLogins>>

\* ------------------------------------------------------------ activities
\* Ids the activities table hands out (uuid primary keys, never reused).
ActivityIds == 1..MaxCreated

\* title of a CreateActivityDto and of an UpdateActivityDto.
CreateTitle == "Read a book"

UpdateTitle == "Read two books"

BadRequest(msg) == [NoRes EXCEPT !.status = "BadRequest", !.message = msg]

Forbidden(msg) == [NoRes EXCEPT !.status = "Forbidden", !.message = msg]

IsOwner_Anyone(activity, userId) == TRUE

\* The ownership test of ActivitiesService.update and .remove.
IsOwner(activity, userId) == activity.user_id = userId

\* activityRepository.findOne({where: {id}})
ActivityFindOne(acts, id) == IF id \in DOMAIN acts THEN Some(acts[id]) ELSE Null

\* activityRepository.save(entity): the row of the entity's id becomes the
\* entity, inserted when no such row is stored.
ActivitySaved(acts, entity) ==
  [a \in DOMAIN acts \cup {entity.id} |-> IF a = entity.id THEN entity ELSE acts[a]]

\* activityRepository.remove(entity): DELETE by primary key.
ActivityRemoved(acts, entity) == [a \in DOMAIN acts \ {entity.id} |-> acts[a]]

\* POST /activities: JwtAuthGuard, then ActivitiesController.create hands
\* {id, username} of request.user to ActivitiesService.create, which refuses
\* an account without username before any database access.
CreateActivity(r, tok) ==
  /\ Takes(r)
  /\ tok \in Tokens
  /\ activitySeq + Cardinality({s \in Slots : req[s].pc = "act_create"}) < MaxCreated
  /\ LET out == JwtStrategyValidateUser(users, tok)
         q == [Idle EXCEPT !.op = "createActivity", !.userId = tok.sub]
     IN req' = [req EXCEPT ![r] =
                  IF ~out.ok THEN Done(q, out.res)
                  ELSE LET q2 == [q EXCEPT !.userId = Val(out.user).id, !.user = out.user] IN
                       IF IsNull(Val(out.user).username)
                         THEN Done(q2, BadRequest(
                                "A username is required to contribute an activity. Please update your profile."))
                       ELSE [q2 EXCEPT !.pc = "act_create"]]
  /\ UNCHANGED <<env, expired, activitySeq, activities, users, minted, issued, overlap, poison, lastLogins>>

\* ActivitiesService.create: the row limit when one is configured, then the
\* save of {user_id: user.id, contributor_name: user.username, ...dto}.
ActivitiesCreate(r) ==
  /\ req[r].pc = "act_create"
  /\ LET q == req[r] IN
       IF ~IsNull(MaxActivities) /\ Cardinality(DOMAIN activities) >= Val(MaxActivities)
         THEN /\ req' = [req EXCEPT ![r] =
                          Done(q, Conflict(
                            "Activity creation limit reached. Cannot create new activities at this time."))]
              /\ UNCHANGED <<activities, activitySeq>>
       ELSE LET id == activitySeq + 1
                newActivity == [id |-> id, user_id |-> q.userId,
                                contributor_name |-> Val(Val(q.user).username),
                                title |-> CreateTitle]
            IN /\ activities' = ActivitySaved(activities, newActivity)
               /\ activitySeq' = id
               /\ req' = [req EXCEPT ![r] =
                            Done([q EXCEPT !.activityId = id, !.activity = Some(newActivity)],
                                 Ok("", NoToken, NoToken))]
  /\ UNCHANGED <<env, expired, users, minted, issued, overlap, poison, lastLogins>>

\* PATCH /activities/:id and DELETE /activities/:id: JwtAuthGuard, then the
\* controller passes request.user.id on.
ActivityRoute(r, tok, op, id) ==
  /\ Takes(r)
  /\ tok \in Tokens
  /\ op \in {"updateActivity", "removeActivity"}
  /\ id \in ActivityIds
  /\ LET out == JwtStrategyValidateUser(users, tok)
         q == [Idle EXCEPT !.op = op, !.userId = tok.sub, !.activityId = id]
     IN req' = [req EXCEPT ![r] =
                  IF ~out.ok THEN Done(q, out.res)
                  ELSE [q EXCEPT !.pc = "act_find", !.userId = Val(out.user).id,
                                 !.user = out.user]]
  /\ UNCHANGED <<env, expired, activitySeq, activities, users, minted, issued, overlap, poison, lastLogins>>

\* ActivitiesService.update and .remove up to their write: findOne (NotFound),
\* then the ownership test (Forbidden).
ActivityFind(r) ==
  /\ req[r].pc = "act_find"
  /\ LET q == req[r]
         activity == ActivityFindOne(activities, q.activityId)
     IN req' = [req EXCEPT ![r] =
                  IF IsNull(activity)
                    THEN Done(q, NotFound("Activity not found."))
                  ELSE IF ~IsOwner(Val(activity), q.userId)
                    THEN Done(q, Forbidden(IF q.op = "updateActivity"
                                           THEN "You are not allowed to update this activity."
                                           ELSE "You are not allowed to delete this activity."))
                  ELSE [q EXCEPT !.activity = activity,
                                 !.pc = IF q.op = "updateActivity" THEN "act_save"
                                        ELSE "act_remove"]]
  /\ UNCHANGED <<env, expired, activitySeq, activities, users, minted, issued, overlap, poison, lastLogins>>

\* ActivitiesService.update: Object.assign(activity, dto), save.
ActivitySave(r) ==
  /\ req[r].pc = "act_save"
  /\ LET q == req[r]
         activity == [Val(q.activity) EXCEPT !.title = UpdateTitle]
     IN /\ activities' = ActivitySaved(activities, activity)
        /\ req' = [req EXCEPT ![r] =
                     Done([q EXCEPT !.activity = Some(activity)], Ok("", NoToken, NoToken))]
  /\ UNCHANGED <<env, expired, activitySeq, users, minted, issued, overlap, poison, lastLogins>>

\* ActivitiesService.remove: remove(activity).
ActivityRemove(r) ==
  /\ req[r].pc = "act_remove"
  /\ LET q == req[r] IN
       /\ activities' = ActivityRemoved(activities, Val(q.activity))
       /\ req' = [req EXCEPT ![r] = Done(q, Ok("", NoToken, NoToken))]
  /\ UNCHANGED <<env, expired, activitySeq, users, minted, issued, overlap, poison, lastLogins>>

Next ==
  \E r \in Slots :
    \/ \E tok \in Tokens : JwtRefreshStrategyValidate(r, tok)
    \/ RefreshToken(r)
    \/ RefreshTokenRevoke(r)
    \/ RefreshTokenRotate(r)
    \/ \E email \in Emails, password \in Passwords : Login(r, email, password)
    \/ LoginStore(r)
    \/ \E tok \in Tokens : JwtStrategyValidate(r, tok)
    \/ Logout(r)

Spec == Init /\ [][Next]_vars

\* ------------------------------------------------- accounts and profiles
\* Registration, login and the guarded profile routes, serving one request at
\* a time (slot q1), under the documented environment (no account limit, so
\* UsersService.create saves without counting).
RegisterBodies ==
  {[email |-> e, password |-> "Secret123!", username |-> u] :
     e \in RegisterEmails, u \in {Null} \cup {Some(n) : n \in Usernames}}

NextAccounts ==
  \/ \E b \in RegisterBodies : Register("q1", b.email, b.password, b.username)
  \/ RegisterUsername("q1")
  \/ UsersCreate("q1")
  \/ \E email \in Emails, password \in Passwords : Login("q1", email, password)
  \/ LoginStore("q1")
  \/ \E tok \in Tokens : GetProfile("q1", tok)
  \/ \E tok \in Tokens, username \in {Null} \cup {Some(n) : n \in Usernames} :
       UpdateProfile("q1", tok, username)
  \/ UpdateProfileUsername("q1")
  \/ UpdateProfileStore("q1", "none")

SpecAccounts == Init /\ [][NextAccounts]_vars

\* ------------------------------------------------------- account limit
\* Registration alone, one request at a time, started under each value of
\* MAX_ROWS_USERS below (and with the variable unset).
MaxRowsValues ==
  { <<>>,
    <<"u", "n", "l", "i", "m", "i", "t", "e", "d">>,
    <<"a", "b", "c">>,
    <<"0">>,
    <<"-", "1">>,
    <<"1">>,
    <<"2">>,
    <<"0", "2">>,
    <<"2", "x">> }

MaxRowsEnvs ==
  {[k \in DOMAIN DocumentedEnv \ {"MAX_ROWS_USERS"} |-> DocumentedEnv[k]]} \cup
  {WithEnv(DocumentedEnv, "MAX_ROWS_USERS", v) : v \in MaxRowsValues}

InitCapacity ==
  /\ env \in MaxRowsEnvs
  /\ users = [id \in UserIds |->
               [id |-> id, email |-> EmailOf(id), username |-> Null,
                password_hash |-> BcryptHash("Secret123!", "saltA"),
                current_hashed_refresh_token |-> Null]]
  /\ req = [r \in Slots |-> Idle]
  /\ minted = 0
  /\ issued = {}
  /\ overlap = [id \in UserIds |-> FALSE]
  /\ poison = {}
  /\ lastLogins = [id \in UserIds |-> <<>>]
  /\ expired = {}
  /\ activities = <<>>
  /\ activitySeq = 0

NextCapacity ==
  \/ \E b \in RegisterBodies : Register("q1", b.email, b.password, b.username)
  \/ RegisterUsername("q1")
  \/ UsersCreate("q1")
  \/ UsersSave("q1")

SpecCapacity == InitCapacity /\ [][NextCapacity]_vars

\* ------------------------------------------- one client, any JWT environment
\* The same handlers serving one request at a time (slot q1), started under
\* each environment of JwtEnvs. (With one request at a time the stored hash
\* cannot change between the refresh guard's read and the service's, so the
\* service's revocation step has nothing to do.)
InitEnv ==
  /\ env \in JwtEnvs
  /\ users = [id \in UserIds |->
               [id |-> id, email |-> EmailOf(id), username |-> Null,
                password_hash |-> BcryptHash("Secret123!", "saltA"),
                current_hashed_refresh_token |-> Null]]
  /\ req = [r \in Slots |-> Idle]
  /\ minted = 0
  /\ issued = {[tok |-> JwtSign(AuthTokenPayload(GhostId, EmailOf(GhostId), 0), ConfigGet(k.key)),
                 from |-> NoToken, cls |-> k.cls] :
                 k \in {[key |-> "JWT_SECRET", cls |-> "access"],
                        [key |-> "JWT_REFRESH_SECRET", cls |-> "refresh"]}}
  /\ overlap = [id \in UserIds |-> FALSE]
  /\ poison = {}
  /\ lastLogins = [id \in UserIds |-> <<>>]
  /\ expired = {}
  /\ activities = <<>>
  /\ activitySeq = 0

NextEnv ==
  \/ \E tok \in Tokens : JwtRefreshStrategyValidate("q1", tok)
  \/ RefreshToken("q1")
  \/ RefreshTokenRotate("q1")
  \/ \E email \in Emails, password \in Passwords : Login("q1", email, password)
  \/ LoginStore("q1")
  \/ \E tok \in Tokens : JwtStrategyValidate("q1", tok)
  \/ Logout("q1")

SpecEnv == InitEnv /\ [][NextEnv]_vars

\* ------------------------------------------------- token lifetimes
\* Time passes the exp claim of a token a client holds
\* (JWT_ACCESS_TOKEN_EXPIRES_IN, JWT_REFRESH_TOKEN_EXPIRES_IN).
Expire(tok) ==
  /\ tok \in Tokens \ expired
  /\ Cardinality(expired) < MaxExpired
  /\ expired' = expired \cup {tok}
  /\ UNCHANGED <<env, users, req, minted, issued, overlap, poison, lastLogins, activities,
                 activitySeq>>

NextExpiry ==
  \/ NextEnv
  \/ \E tok \in Tokens : Expire(tok)

SpecExpiry == Init /\ [][NextExpiry]_vars

\* ---------------------------------------------------- an unreliable store
\* Where storing a rotated hash may fail: bcrypt.hash, or UsersService.update
\* (the dto carries no username, so no activity statement is issued).
RotateFaults == {"bcrypt"} \cup (UpdateFaults \ {"none", "activities"})

\* AuthService.updateRefreshTokenHash(userId, refreshToken) under a fault.
UpdateRefreshTokenHashUnder(us, acts, userId, refreshToken, salt, fault) ==
  IF fault = "bcrypt"
  THEN [users |-> us, activities |-> acts, user |-> Null, log |-> <<>>,
        error |-> InternalServerError("bcrypt")]
  ELSE UsersServiceUpdate(us, acts, userId,
         [current_hashed_refresh_token |-> Some(BcryptHash(Sha256(refreshToken), salt))], fault)

\* refreshToken on a match when updateRefreshTokenHash throws: the catch block
\* answers with an internal error and the signed pair is dropped.
RefreshTokenRotateFault(r, fault) ==
  /\ req[r].pc = "refresh_rotate"
  /\ fault \in RotateFaults
  /\ LET q == req[r] IN
       \E salt \in Salts :
         LET out == UpdateRefreshTokenHashUnder(users, activities, q.userId,
                                                q.newRefreshToken, salt, fault)
         IN /\ out.error.status # "none"
            /\ users' = out.users
            /\ req' = [req EXCEPT ![r] =
                         Done([q EXCEPT !.txLog = out.log],
                              InternalServerError("Failed to complete token refresh process."))]
            /\ lastLogins' = CutLogins(q.userId)
  /\ UNCHANGED <<env, expired, activitySeq, activities, minted, issued, overlap, poison>>

\* The authentication routes, profile update and activity creation, one
\* request at a time, on a store whose calls may fail.
NextFaults ==
  \/ NextEnv
  \/ \E fault \in RotateFaults : RefreshTokenRotateFault("q1", fault)
  \/ \E tok \in Tokens : CreateActivity("q1", tok)
  \/ ActivitiesCreate("q1")
  \/ \E tok \in Tokens, username \in {Null} \cup {Some(n) : n \in Usernames} :
       UpdateProfile("q1", tok, username)
  \/ UpdateProfileUsername("q1")
  \/ \E fault \in UpdateFaults : UpdateProfileStore("q1", fault)

SpecFaults == Init /\ [][NextFaults]_vars

\* ------------------------------------------------------- two accounts
\* A second registered account, with a username and no session yet.
SecondId == "u2"

SecondEmail == "b@x.com"

InitFrame ==
  /\ env = DocumentedEnv
  /\ users = [id \in UserIds \cup {SecondId} |->
               [id |-> id,
                email |-> IF id = SecondId THEN SecondEmail ELSE EmailOf(id),
                username |-> IF id = SecondId THEN Some("bob") ELSE Null,
                password_hash |-> BcryptHash("Secret123!", "saltA"),
                current_hashed_refresh_token |-> Null]]
  /\ req = [r \in Slots |-> Idle]
  /\ minted = 0
  /\ issued = {[tok |-> JwtSign(AuthTokenPayload(GhostId, EmailOf(GhostId), 0), ConfigGet(k.key)),
                 from |-> NoToken, cls |-> k.cls] :
                 k \in {[key |-> "JWT_SECRET", cls |-> "access"],
                        [key |-> "JWT_REFRESH_SECRET", cls |-> "refresh"]}}
  /\ overlap = [id \in UserIds \cup {SecondId} |-> FALSE]
  /\ poison = {}
  /\ lastLogins = [id \in UserIds \cup {SecondId} |-> <<>>]
  /\ expired = {}
  /\ activities = <<>>
  /\ activitySeq = 0

\* The authentication routes used by both accounts, one request at a time.
NextFrame ==
  \/ \E tok \in Tokens : JwtRefreshStrategyValidate("q1", tok)
  \/ RefreshToken("q1")
  \/ RefreshTokenRotate("q1")
  \/ \E email \in Emails \cup {SecondEmail}, password \in Passwords : Login("q1", email, password)
  \/ LoginStore("q1")
  \/ \E tok \in Tokens : JwtStrategyValidate("q1", tok)
  \/ Logout("q1")

SpecFrame == InitFrame /\ [][NextFrame]_vars

\* ------------------------------------------------ concurrent registration
\* Two register requests at a time, without an account limit and with
\* MAX_ROWS_USERS=2, the table holding one account at start.
RaceBodies ==
  {[email |-> e, password |-> "Secret123!", username |-> u] :
     e \in {"b@x.com", "c@x.com"}, u \in {Null, Some("bob")}}

RaceEnvs == {DocumentedEnv, WithEnv(DocumentedEnv, "MAX_ROWS_USERS", <<"2">>)}

InitRace ==
  /\ env \in RaceEnvs
  /\ users = [id \in UserIds |->
               [id |-> id, email |-> EmailOf(id), username |-> Null,
                password_hash |-> BcryptHash("Secret123!", "saltA"),
                current_hashed_refresh_token |-> Null]]
  /\ req = [r \in Slots |-> Idle]
  /\ minted = 0
  /\ issued = {}
  /\ overlap = [id \in UserIds |-> FALSE]
  /\ poison = {}
  /\ lastLogins = [id \in UserIds |-> <<>>]
  /\ expired = {}
  /\ activities = <<>>
  /\ activitySeq = 0

NextRace ==
  \E r \in Slots :
    \/ \E b \in RaceBodies : Register(r, b.email, b.password, b.username)
    \/ RegisterUsername(r)
    \/ UsersCreate(r)
    \/ UsersSave(r)

SpecRace == InitRace /\ [][NextRace]_vars

\* ------------------------------------------------- activities of accounts
\* Two registered accounts, the first with a username, each holding an access
\* token of an earlier login; activity routes and profile updates, two
\* requests at a time, on a reliable store.
AccessTokenOf(id, email, k) ==
  JwtSign(AuthTokenPayload(id, email, GenerateJwtId(2 * k + 1)), ConfigGet("JWT_SECRET"))

InitActivities ==
  /\ env = DocumentedEnv
  /\ users = [id \in UserIds \cup {SecondId} |->
               [id |-> id,
                email |-> IF id = SecondId THEN SecondEmail ELSE EmailOf(id),
                username |-> IF id = SecondId THEN Null ELSE Some("bob"),
                password_hash |-> BcryptHash("Secret123!", "saltA"),
                current_hashed_refresh_token |-> Null]]
  /\ req = [r \in Slots |-> Idle]
  /\ minted = 2
  /\ issued = {[tok |-> AccessTokenOf("u1", EmailOf("u1"), 0), from |-> NoToken, cls |-> "access"],
                [tok |-> AccessTokenOf(SecondId, SecondEmail, 1), from |-> NoToken, cls |-> "access"]}
  /\ overlap = [id \in UserIds \cup {SecondId} |-> FALSE]
  /\ poison = {}
  /\ lastLogins = [id \in UserIds \cup {SecondId} |-> <<>>]
  /\ expired = {}
  /\ activities = <<>>
  /\ activitySeq = 0

NextActivities ==
  \E r \in Slots :
    \/ \E tok \in Tokens : CreateActivity(r, tok)
    \/ ActivitiesCreate(r)
    \/ \E tok \in Tokens, op \in {"updateActivity", "removeActivity"}, id \in ActivityIds :
         ActivityRoute(r, tok, op, id)
    \/ ActivityFind(r)
    \/ ActivitySave(r)
    \/ ActivityRemove(r)
    \/ \E tok \in Tokens, username \in {Some(n) : n \in Usernames} :
         UpdateProfile(r, tok, username)
    \/ UpdateProfileUsername(r)
    \/ UpdateProfileStore(r, "none")

SpecActivities == InitActivities /\ [][NextActivities]_vars

\* ================================================================ claims
Steps(r) == req'[r] # req[r]

RefreshDone(r) == req[r].pc = "done" /\ req[r].op = "refresh"

\* C1 (as claimed): once a rotated refresh token has been presented again and
\* rejected, a later refresh presenting the token it had been exchanged for
\* fails Unauthorized too (the stale presentation poisoned the session).
C1_PoisonAfterStaleUse ==
  \A r \in Slots :
    (RefreshDone(r) /\ req[r].afterPoison) => req[r].res.status = "Unauthorized"

\* C2: a refreshToken call that reads a stored hash the presented token does
\* not match goes on to write null, and returns Unauthorized without tokens
\* once the hash is null.
C2_MismatchRevokes ==
  [][\A r \in Slots :
       /\ ( /\ req[r].pc = "refresh_service" /\ Steps(r)
            /\ ~IsNull(HashOf(users, req[r].userId))
            /\ ~Accepts(users, req[r].tok) )
          => (req'[r].pc = "refresh_revoke" /\ req'[r].res = NoRes)
       /\ (req[r].pc = "refresh_revoke" /\ Steps(r))
          => /\ req'[r].pc = "done"
             /\ req'[r].res.status = "Unauthorized"
             /\ req'[r].res.accessToken = NoToken
             /\ req'[r].res.refreshToken = NoToken
             /\ IsNull(HashOf(users', req[r].userId))]_vars

C2_Witness ==
  \E r \in Slots :
    /\ RefreshDone(r)
    /\ req[r].res = Unauthorized("Invalid refresh token.")
    /\ IsNull(HashOf(users, req[r].userId))

\* C3: a refreshToken call presenting the token the stored hash matches
\* succeeds with a pair (A2, R2), R2 # R1 and A2 no token issued before, and
\* leaves the hash of R2 on record: R2 is accepted next, R1 is not.
C3_MatchRotates ==
  [][\A r \in Slots :
       /\ (req[r].pc = "refresh_service" /\ Steps(r) /\ Accepts(users, req[r].tok))
          => req'[r].pc = "refresh_rotate"
       /\ (req[r].pc = "refresh_rotate" /\ Steps(r))
          => /\ req'[r].pc = "done"
             /\ req'[r].res.status = "ok"
             /\ req'[r].res.refreshToken # req[r].tok
             /\ req'[r].res.refreshToken \notin Tokens
             /\ req'[r].res.accessToken \notin Tokens
             /\ req'[r].res.accessToken # req'[r].res.refreshToken
             /\ Accepts(users', req'[r].res.refreshToken)
             /\ ~Accepts(users', req[r].tok)]_vars

C3_Witness ==
  \E r \in Slots :
    /\ RefreshDone(r)
    /\ req[r].res.status = "ok"
    /\ Accepts(users, req[r].res.refreshToken)
    /\ req[r].res.accessToken \in Tokens

\* C4: while the refresh requests of an account have never overlapped, every
\* refresh token has been exchanged by at most one successful refresh.
C4_SingleUse ==
  \A t \in RefreshTokens :
    (t.sub \in UserIds /\ ~overlap[t.sub]) => Cardinality(ChildrenOf(t)) <= 1

C4_Witness ==
  \E r \in Slots :
    /\ RefreshDone(r)
    /\ req[r].res = Unauthorized("Refresh token mismatch.")
    /\ req[r].userId \in UserIds
    /\ ~overlap[req[r].userId]
    /\ Cardinality(ChildrenOf(req[r].tok)) = 1

\* C5: at most one refresh token among all those issued (or signed and not
\* yet returned) matches the stored hash of its account.
MintedRefreshTokens ==
  RefreshTokens \cup {req[r].newRefreshToken : r \in {s \in Slots : req[s].newRefreshToken # NoToken}}

C6_NoSessionRejected ==
  [][\A r \in Slots :
       ( /\ Steps(r)
         /\ req'[r].op = "refresh"
         /\ req[r].pc \in {"idle", "done", "refresh_service"}
         /\ IsNull(HashOf(users, req'[r].userId)) )
       => /\ req'[r].pc = "done"
          /\ req'[r].res.status = "Unauthorized"
          /\ req'[r].res.accessToken = NoToken
          /\ req'[r].res.refreshToken = NoToken
          /\ users' = users]_vars

\* A token a login issued, presented after a logout, is rejected.
C6_Witness ==
  \E r, s \in Slots :
    /\ req[s].pc = "done" /\ req[s].op = "logout" /\ req[s].res.status = "ok" /\ req[s].hadHash
    /\ RefreshDone(r)
    /\ req[r].tok \in RefreshTokens
    /\ req[r].tok.sub = req[s].userId
    /\ req[r].res = Unauthorized("Invalid refresh token or user session not found.")
    /\ IsNull(HashOf(users, req[r].userId))

\* C7: logout always leaves a null hash and answers 'Logout successful.',
\* whether or not a hash was stored.
C7_LogoutClears ==
  [][\A r \in Slots :
       (req[r].pc = "logout_service" /\ Steps(r))
       => /\ req'[r].pc = "done"
          /\ req'[r].res = Ok("Logout successful.", NoToken, NoToken)
          /\ IsNull(HashOf(users', req[r].userId))]_vars

\* Two logouts have succeeded, one with a session to end and one without.
C7_Witness ==
  \E r, s \in Slots :
    /\ req[r].pc = "done" /\ req[r].op = "logout" /\ req[r].res.status = "ok" /\ req[r].hadHash
    /\ req[s].pc = "done" /\ req[s].op = "logout" /\ req[s].res.status = "ok" /\ ~req[s].hadHash
    /\ IsNull(HashOf(users, req[r].userId))

\* C8: when a refresh stores its new hash after another refresh that presented
\* the same token has already succeeded, it succeeds too, with a different
\* pair, and the stored hash is then its own token's, not the other's.
C8_DuplicateIssueLastWriteWins ==
  [][\A r, s \in Slots :
       ( /\ req[r].pc = "refresh_rotate" /\ Steps(r)
         /\ RefreshDone(s) /\ req[s].res.status = "ok"
         /\ req[s].tok = req[r].tok )
       => /\ req'[r].res.status = "ok"
          /\ req'[r].res.refreshToken # req[s].res.refreshToken
          /\ req'[r].res.accessToken # req[s].res.accessToken
          /\ Accepts(users', req'[r].res.refreshToken)
          /\ ~Accepts(users', req[s].res.refreshToken)]_vars

C8_Witness ==
  \E r, s \in Slots :
    /\ r # s
    /\ RefreshDone(r) /\ req[r].res.status = "ok"
    /\ RefreshDone(s) /\ req[s].res.status = "ok"
    /\ req[r].tok = req[s].tok
    /\ req[r].res.refreshToken # req[s].res.refreshToken
    /\ Accepts(users, req[r].res.refreshToken)
    /\ ~Accepts(users, req[s].res.refreshToken)

\* A refresh token returned by a successful refresh whose stored hash has been
\* overwritten by a refresh that presented the same token.
Orphan(us, t) ==
  \E e \in issued :
    /\ e.tok = t /\ e.from # NoToken /\ ~Accepts(us, t)
    /\ \E w \in ChildrenOf(e.from) \ {t} : Accepts(us, w)

\* C9 (as claimed): the request that presents an orphaned refresh token fails
\* Unauthorized and leaves the stored hash null.
C9_OrphanUseRevokes ==
  [][\A r \in Slots :
       ( /\ Steps(r) /\ Free(r)
         /\ req'[r].op = "refresh"
         /\ Orphan(users, req'[r].tok) )
       => /\ req'[r].pc = "done"
          /\ req'[r].res.status = "Unauthorized"
          /\ IsNull(HashOf(users', req'[r].userId))]_vars

\* C10 (as claimed): after two logins in a row, the refresh token of the
\* first is still accepted.
C10_FirstLoginTokenSurvives ==
  \A id \in UserIds :
    Len(lastLogins[id]) = 2 => Accepts(users, lastLogins[id][1])

\* C10 (amended): after two logins in a row the stored hash is that of the
\* second login's refresh token: it is accepted, the first login's is not.
C10_SecondLoginReplaces ==
  \A id \in UserIds :
    Len(lastLogins[id]) = 2
    => /\ Accepts(users, lastLogins[id][2])
       /\ ~Accepts(users, lastLogins[id][1])

C10_Witness ==
  \E id \in UserIds :
    /\ Len(lastLogins[id]) = 2
    /\ lastLogins[id][1] # lastLogins[id][2]
    /\ {lastLogins[id][1], lastLogins[id][2]} \subseteq RefreshTokens

LoginDone(r) == req[r].pc = "done" /\ req[r].op = "login"

\* The password an account was registered with verifies against its hash.
CorrectCredentials(us, email, password) ==
  \E id \in DOMAIN us : us[id].email = email /\ us[id].password_hash.of = password

StartsLogin(r) == Free(r) /\ Steps(r) /\ req'[r].op = "login"

\* C11: a login with the email and the password of an account goes on to its
\* store step, and returns from it an access and a refresh token that differ,
\* carry two different token ids that no token issued before carries, both
\* have the account's id as subject, with the hash of the returned refresh
\* token already on record (nothing is returned before the store).
C11_LoginIssuesPair ==
  [][\A r \in Slots :
       /\ (StartsLogin(r) /\ CorrectCredentials(users, req'[r].email, req'[r].password))
          => /\ req'[r].pc = "login_store"
             /\ req'[r].res = NoRes
             /\ users[req'[r].userId].email = req'[r].email
       /\ (req[r].pc = "login_store" /\ Steps(r))
          => LET res == req'[r].res IN
             /\ req'[r].pc = "done"
             /\ res.status = "ok"
             /\ res.accessToken # res.refreshToken
             /\ res.accessToken.jti # res.refreshToken.jti
             /\ \A t \in Tokens : t.jti \notin {res.accessToken.jti, res.refreshToken.jti}
             /\ res.accessToken.sub = req[r].userId
             /\ res.refreshToken.sub = req[r].userId
             /\ Accepts(users', res.refreshToken)]_vars

C11_Witness ==
  \E r \in Slots :
    /\ LoginDone(r) /\ req[r].res.status = "ok"
    /\ CorrectCredentials(users, req[r].email, req[r].password)
    /\ req[r].res.accessToken.sub = req[r].userId
    /\ Accepts(users, req[r].res.refreshToken)

\* C12: a login whose email no account has, or whose password is not the
\* account's, ends at once with Unauthorized and no token, and changes neither
\* the users table nor the tokens issued.
C12_FailedLoginChangesNothing ==
  [][\A r \in Slots :
       (StartsLogin(r) /\ ~CorrectCredentials(users, req'[r].email, req'[r].password))
       => /\ req'[r].pc = "done"
          /\ req'[r].res.status = "Unauthorized"
          /\ req'[r].res.accessToken = NoToken
          /\ req'[r].res.refreshToken = NoToken
          /\ IsNull(req'[r].res.user)
          /\ users' = users
          /\ issued' = issued
          /\ minted' = minted]_vars

\* A login was refused for its password while the account had a session, and
\* a refresh token of the account is still accepted.
C12_Witness ==
  \E r \in Slots :
    /\ LoginDone(r) /\ req[r].res = Unauthorized("Invalid credentials. Password does not match.")
    /\ req[r].hadHash
    /\ \E t \in RefreshTokens : t.sub = req[r].userId /\ Accepts(users, t)

\* C13: in every state a login with the account's credentials is let through
\* to its store step, which leaves its refresh token on record; while nothing
\* else has touched the account since, that token is the one on record, and
\* the refresh guard lets a request presenting it through.
C13_LoginRestoresService ==
  /\ [](\A id \in UserIds :
          lastLogins[id] # <<>> => Accepts(users, lastLogins[id][Len(lastLogins[id])]))
  /\ [][\A r \in Slots :
          /\ (StartsLogin(r) /\ CorrectCredentials(users, req'[r].email, req'[r].password))
             => req'[r].pc = "login_store"
          /\ (req[r].pc = "login_store" /\ Steps(r))
             => (req'[r].res.status = "ok" /\ Accepts(users', req'[r].res.refreshToken))
          /\ ( /\ Free(r) /\ Steps(r) /\ req'[r].op = "refresh"
               /\ req'[r].userId \in UserIds
               /\ lastLogins[req'[r].userId] # <<>>
               /\ req'[r].tok = lastLogins[req'[r].userId][Len(lastLogins[req'[r].userId])] )
             => req'[r].pc = "refresh_service"]_vars

\* After a logout ended a session, a later login's refresh token is on record
\* and a refresh presenting it has passed the guard.
C13_Witness ==
  \E r, s \in Slots :
    /\ req[s].pc = "done" /\ req[s].op = "logout" /\ req[s].res.status = "ok" /\ req[s].hadHash
    /\ req[r].op = "refresh" /\ req[r].pc = "refresh_service"
    /\ req[r].userId = req[s].userId
    /\ \E e \in issued : e.tok = req[r].tok /\ e.from = NoToken
    /\ Accepts(users, req[r].tok)

\* Values the stored-hash column can take.
FingerprintValues ==
  {Null} \cup {Some(BcryptHash(Sha256(t), salt)) : t \in RefreshTokens, salt \in Salts}

\* The users table with every stored hash replaced by h.
WithFingerprint(us, h) ==
  [id \in DOMAIN us |-> [us[id] EXCEPT !.current_hashed_refresh_token = h]]

AccessTokensIssued == {e.tok : e \in {x \in issued : x.cls = "access"}}

RefreshTokensIssued == {e.tok : e \in {x \in issued : x.cls = "refresh"}}

\* C14: what JwtStrategy.validate answers for a token is the same whatever
\* hash is stored, it never writes the users table and hands no hash to the
\* handler; so every access token issued to an existing account is accepted in
\* every state, a null or replaced hash included.
C14_AccessVerifierIgnoresFingerprint ==
  /\ [](/\ \A tok \in Tokens, h \in FingerprintValues :
             JwtStrategyValidateUser(WithFingerprint(users, h), tok)
               = JwtStrategyValidateUser(users, tok)
        /\ \A tok \in AccessTokensIssued :
             tok.sub \in DOMAIN users => JwtStrategyValidateUser(users, tok).ok)
  /\ [][\A r \in Slots :
          (Free(r) /\ Steps(r) /\ req'[r].op = "logout")
          => /\ users' = users
             /\ req'[r].pc = "logout_service"
                => "current_hashed_refresh_token" \notin DOMAIN Val(req'[r].user)]_vars

\* A logout has ended a session, the hash is null, and the guard has accepted
\* an access token of that account.
C14_Witness ==
  \E r, s \in Slots :
    /\ req[s].pc = "done" /\ req[s].op = "logout" /\ req[s].res.status = "ok" /\ req[s].hadHash
    /\ req[r].op = "logout" /\ req[r].pc = "logout_service"
    /\ req[r].userId = req[s].userId
    /\ IsNull(HashOf(users, req[r].userId))
    /\ \E tok \in AccessTokensIssued :
         tok.sub = req[r].userId /\ JwtStrategyValidateUser(users, tok).ok

\* What JwtRefreshStrategy lets through to AuthService.refreshToken.
JwtRefreshStrategyAccepts(us, tok) ==
  /\ JwtVerify(tok, ConfigGet("JWT_REFRESH_SECRET"))
  /\ HasStoredHash(FindUserWithRefreshToken(us, tok.sub))
  /\ IsTokenMatching(tok, FindUserWithRefreshToken(us, tok.sub))

C16_RefreshedAccessTokenAccepted ==
  \A e \in issued :
    (e.cls = "access" /\ e.from # NoToken /\ e.tok.sub \in DOMAIN users)
    => /\ JwtStrategyValidateUser(users, e.tok).ok
       /\ Val(JwtStrategyValidateUser(users, e.tok).user).id = e.tok.sub

\* C17 (as claimed): any two logins refused with Unauthorized, one for an
\* email no account has and one for a wrong password, carry the same response.
C17_FailedLoginUniform ==
  \A r, s \in Slots :
    ( /\ LoginDone(r) /\ req[r].res.status = "Unauthorized"
      /\ LoginDone(s) /\ req[s].res.status = "Unauthorized" )
    => req[r].res = req[s].res

RegisterDone(r) == req[r].pc = "done" /\ req[r].op = "register"

EmailHeld(us, email) == \E id \in DOMAIN us : us[id].email = email

UsernameHeld(us, username) == \E id \in DOMAIN us : us[id].username = username

\* C18: a register whose email an account holds ends at once with Conflict,
\* whatever username it carries; one whose email is free and whose username an
\* account holds ends with Conflict at the username check; in both cases no
\* password hash has been computed and the users table is unchanged.
C18_DuplicateRegisterRejected ==
  [][\A r \in Slots :
       /\ (Free(r) /\ Steps(r) /\ req'[r].op = "register" /\ EmailHeld(users, req'[r].email))
          => /\ req'[r].pc = "done"
             /\ req'[r].res.status = "Conflict"
             /\ IsNull(req'[r].hashedPassword)
             /\ users' = users
       /\ ( /\ Free(r) /\ Steps(r) /\ req'[r].op = "register"
            /\ ~EmailHeld(users, req'[r].email)
            /\ ~IsNull(req'[r].username) /\ UsernameHeld(users, req'[r].username) )
          => /\ req'[r].pc = "reg_username"
             /\ IsNull(req'[r].hashedPassword)
             /\ users' = users
       /\ (req[r].pc = "reg_username" /\ Steps(r) /\ UsernameHeld(users, req[r].username))
          => /\ req'[r].pc = "done"
             /\ req'[r].res.status = "Conflict"
             /\ IsNull(req'[r].hashedPassword)
             /\ users' = users]_vars

\* An email registered earlier with one username is refused with another,
\* free, username.
C18_Witness ==
  \E r \in Slots, id \in RegisterIds :
    /\ RegisterDone(r)
    /\ req[r].res = Conflict("User with this email already exists.")
    /\ id \in DOMAIN users
    /\ users[id].email = req[r].email
    /\ ~IsNull(req[r].username)
    /\ ~UsernameHeld(users, req[r].username)
    /\ IsNull(req[r].hashedPassword)

\* C19: no user object in a response of register, login, the profile routes
\* or the profile update, and no request.user set by JwtStrategy, has a
\* password_hash or current_hashed_refresh_token property.
C19_NoSecretReturned ==
  \A r \in Slots :
    /\ ~IsNull(req[r].res.user) => DOMAIN Val(req[r].res.user) \cap SecretColumns = {}
    /\ (req[r].op \in {"me", "updateProfile", "logout"} /\ ~IsNull(req[r].user))
       => DOMAIN Val(req[r].user) \cap SecretColumns = {}

\* The profile of an account with a stored refresh-token hash has been
\* returned, with exactly the public columns.
C19_Witness ==
  \E r \in Slots :
    /\ req[r].pc = "done" /\ req[r].op = "me" /\ req[r].res.status = "ok"
    /\ ~IsNull(HashOf(users, req[r].userId))
    /\ DOMAIN Val(req[r].res.user) = PublicColumns
    /\ Val(req[r].res.user).id = req[r].userId

\* The classes of MAX_ROWS_USERS values the claim names.
AllDigits(v) == v # <<>> /\ \A i \in 1..Len(v) : v[i] \in Digits

PositiveIntegerValue(v) == AllDigits(v) /\ ParseDigits(v, 1, 0) > 0

NoLimitConfigured ==
  \/ "MAX_ROWS_USERS" \notin DOMAIN env
  \/ LET v == env["MAX_ROWS_USERS"] IN
       \/ v = <<"u", "n", "l", "i", "m", "i", "t", "e", "d">>
       \/ \A i \in 1..Len(v) : v[i] \notin Digits
       \/ (AllDigits(v) /\ ParseDigits(v, 1, 0) = 0)
       \/ (Len(v) > 1 /\ v[1] = "-" /\ AllDigits(Tail(v)))

LimitReached == "User registration limit reached. Cannot create new users at this time."

IsFingerprintOf(h, t) ==
  \E salt \in Salts : h = [salt |-> salt, of |-> [alg |-> "sha256", of |-> t]]

LogoutDone(r) == req[r].pc = "done" /\ req[r].op = "logout"

\* C21: in every reachable state each non-null stored hash is the salted
\* bcrypt hash of the sha256 digest of a refresh token that login or refresh
\* issued to the same account, never the token itself and never its bare
\* digest; and updateRefreshTokenHash with a null token stores null.
C21_FingerprintIsSaltedDigest ==
  \A id \in DOMAIN users :
    LET h == users[id].current_hashed_refresh_token IN
    /\ ~IsNull(h) =>
          /\ \E t \in RefreshTokensIssued : t.sub = id /\ IsFingerprintOf(Val(h), t)
          /\ \A t \in MintedRefreshTokens : Val(h) # t /\ Val(h) # [alg |-> "sha256", of |-> t]
    /\ \A salt \in Salts :
          IsNull(HashOf(UpdateRefreshTokenHash(users, id, Null, salt), id))

\* A refresh has rotated the hash a login stored, and a logout has cleared one.
C21_Witness ==
  /\ \E r \in Slots :
        /\ RefreshDone(r) /\ req[r].res.status = "ok"
        /\ ~IsNull(HashOf(users, req[r].userId))
        /\ IsFingerprintOf(Val(HashOf(users, req[r].userId)), req[r].res.refreshToken)
  /\ \E r \in Slots : LogoutDone(r) /\ req[r].res.status = "ok"


\* ---------------------------------------------------------------------- C22
\* A token passport refuses: wrong signing key, or past its exp claim.
FailsVerification(tok) == tok.key # ConfigGet("JWT_REFRESH_SECRET") \/ tok \in expired

WritesFingerprint(r) ==
  /\ req[r].pc \in {"login_store", "logout_service", "refresh_revoke", "refresh_rotate"}
  /\ Steps(r)

\* C22: a refresh presenting a token that is expired or not signed with the
\* refresh secret ends at the guard with Unauthorized, with no account loaded
\* and the users table untouched, also when the stored hash is that of the
\* presented token; a stored hash changes only in a write of login, logout or
\* refresh.
C22_UnverifiedRefreshRejected ==
  [][/\ \A r \in Slots, tok \in Tokens :
          (JwtRefreshStrategyValidate(r, tok) /\ FailsVerification(tok)) =>
            /\ req'[r].pc = "done"
            /\ req'[r].res.status = "Unauthorized"
            /\ req'[r].res.refreshToken = NoToken /\ req'[r].res.accessToken = NoToken
            /\ req'[r].userId = "" /\ IsNull(req'[r].user)
            /\ users' = users
     /\ \A id \in DOMAIN users :
          HashOf(users', id) # HashOf(users, id) => \E s \in Slots : WritesFingerprint(s)]_vars

\* The token on record has expired and a refresh presenting it was refused.
C22_Witness ==
  \E t \in RefreshTokensIssued :
    /\ expired = {t}
    /\ t.sub \in DOMAIN users
    /\ ~IsNull(HashOf(users, t.sub))
    /\ IsFingerprintOf(Val(HashOf(users, t.sub)), t)
    /\ RefreshDone("q1")
    /\ req["q1"].res = Unauthorized("jwt expired")


\* ---------------------------------------------------------------------- C23
RotateFails(r) ==
  /\ req[r].pc = "refresh_rotate"
  /\ req'[r].pc = "done"
  /\ req'[r].res.status = "InternalServerError"

\* C23 (as claimed): a refresh whose presented token matched and whose store of
\* the new hash fails ends with an internal error and no token, and leaves the
\* stored hash as it was, so the presented token is still the accepted one.
C23_FailedRotationKeepsFingerprint ==
  [][\A r \in Slots :
       RotateFails(r) =>
         /\ req'[r].res.accessToken = NoToken /\ req'[r].res.refreshToken = NoToken
         /\ HashOf(users', req[r].userId) = HashOf(users, req[r].userId)
         /\ Accepts(users', req[r].tok)]_vars


\* ---------------------------------------------------------------------- C25
AuthOps == {"login", "refresh", "logout"}

WithoutFingerprint(row) == Omit(row, {"current_hashed_refresh_token"})

\* C25: a step of a login, refresh or logout request, successful or not,
\* leaves the set of accounts, every column but the stored hash of every
\* account, every row of any account other than the request's own, and the
\* activities table as they were.
C25_AuthWritesOwnFingerprintOnly ==
  [][\A r \in Slots :
       (Steps(r) /\ req'[r].op \in AuthOps) =>
         /\ DOMAIN users' = DOMAIN users
         /\ \A id \in DOMAIN users :
              /\ WithoutFingerprint(users'[id]) = WithoutFingerprint(users[id])
              /\ id # req'[r].userId => users'[id] = users[id]
         /\ activities' = activities]_vars

\* Both accounts hold a session and the first account's refresh has just
\* rotated its own hash.
C25_Witness ==
  /\ RefreshDone("q1") /\ req["q1"].res.status = "ok" /\ req["q1"].userId = "u1"
  /\ ~IsNull(HashOf(users, "u1"))
  /\ ~IsNull(HashOf(users, SecondId))


\* ---------------------------------------------------------------------- C24
\* The register request of slot r got past both lookups.
PassedLookups(r) == ~IsNull(req[r].hashedPassword)

LimitMessage == "User registration limit reached. Cannot create new users at this time."

\* C24: whatever the interleaving of register requests, no two stored accounts
\* share an email or a username; a register that got past the lookups and
\* does not insert ends with Conflict, never with an internal error; and of
\* two registers with one email that both got past the lookups exactly one
\* inserted (unless the account limit stopped them).
C24_UniqueUnderConcurrentRegister ==
  /\ \A i, j \in DOMAIN users :
       i # j => /\ users[i].email # users[j].email
                /\ IsNull(users[i].username) \/ users[i].username # users[j].username
  /\ \A r \in Slots :
       (RegisterDone(r) /\ PassedLookups(r)) =>
         \/ req[r].res.status = "ok" /\ req[r].userId \in DOMAIN users
         \/ req[r].res.status = "Conflict"
  /\ \A r, s \in Slots :
       (/\ r # s
        /\ RegisterDone(r) /\ PassedLookups(r)
        /\ RegisterDone(s) /\ PassedLookups(s)
        /\ req[r].email = req[s].email
        /\ LimitMessage \notin {req[r].res.message, req[s].res.message}) =>
         Cardinality({q \in {r, s} : req[q].res.status = "ok"}) = 1

\* Two registers with one email both got past the lookups; one inserted, the
\* other met the unique index.
C24_Witness ==
  \E r, s \in Slots :
    /\ r # s
    /\ RegisterDone(r) /\ PassedLookups(r) /\ req[r].res.status = "ok"
    /\ RegisterDone(s) /\ PassedLookups(s)
    /\ req[s].res = Conflict("User with this email or username already exists.")
    /\ req[r].email = req[s].email

\* ---------------------------------------------------------------------- C26
\* C26 (as claimed): with MAX_ROWS_USERS a positive integer N and at most N
\* accounts at start, the number of stored accounts never exceeds N, also
\* when register requests run concurrently.
C26_LimitUnderConcurrentRegister ==
  ~IsNull(MaxUsers) => Cardinality(DOMAIN users) <= Val(MaxUsers)


\* ---------------------------------------------------------------------- C27
\* usersService.update runs and answers in this step of a profile update.
StoresProfile(r) == req[r].pc = "upd_update" /\ req'[r].pc = "done"

\* C27 (as claimed): a profile update that changes the username to u either
\* succeeds, and then the account's username is u and each of its activities
\* has contributor_name u, or fails, and then the transaction was rolled back
\* and the username is the old one; an update whose username is absent or the
\* current one touches no activity.
C27_UsernameChangeAllOrNothing ==
  [][\A r \in Slots :
       /\ StoresProfile(r) =>
            LET q == req[r]
                old == users[q.userId].username
            IN IF q.username # old
               THEN \/ /\ req'[r].res.status = "ok"
                       /\ users'[q.userId].username = q.username
                       /\ \A a \in DOMAIN activities' :
                            activities'[a].user_id = q.userId =>
                              activities'[a].contributor_name = Val(q.username)
                    \/ /\ req'[r].res.status # "ok"
                       /\ \E i \in DOMAIN req'[r].txLog : req'[r].txLog[i] = "rollbackTransaction"
                       /\ users'[q.userId].username = old
               ELSE activities' = activities
       /\ (Steps(r) /\ req'[r].op = "updateProfile" /\ IsNull(req'[r].username)) =>
            activities' = activities]_vars

\* ---------------------------------------------------------------------- C29
\* Number of times the query runner call was made.
Calls(log, call) == Cardinality({i \in DOMAIN log : log[i] = call})

\* C29 (as claimed): a call of UsersService.update that started a transaction
\* invoked exactly one of commitTransaction and rollbackTransaction, and
\* released the query runner exactly once, last.
C29_TransactionEndedOnce ==
  \A r \in Slots :
    LET log == req[r].txLog IN
    log # <<>> =>
      /\ Calls(log, "commitTransaction") + Calls(log, "rollbackTransaction") = 1
      /\ Calls(log, "release") = 1
      /\ log[Len(log)] = "release"


\* ---------------------------------------------------------------------- C28
\* C28 (as claimed): once all requests have completed, every stored activity's
\* contributor_name is the current username of its owner, whatever the
\* interleaving of an activity creation with a username change of the account.
C28_ContributorNameFollowsUsername ==
  (\A r \in Slots : Free(r)) =>
    \A a \in DOMAIN activities :
      /\ activities[a].user_id \in DOMAIN users
      /\ users[activities[a].user_id].username = Some(activities[a].contributor_name)

\* ---------------------------------------------------------------------- C30
ActivityWriteOps == {"createActivity", "updateActivity", "removeActivity", "updateProfile"}

\* C30: a stored activity is changed or deleted only in a step of a request
\* authenticated as its owner; update or remove by another account ends with
\* Forbidden and of a missing (or deleted) id with NotFound, the table
\* untouched; and no step changes the user_id of a stored activity.
C30_OnlyOwnerModifies ==
  [][/\ \A a \in DOMAIN activities :
          (a \notin DOMAIN activities' \/ activities'[a] # activities[a]) =>
            \E r \in Slots :
              /\ Steps(r)
              /\ req[r].op \in ActivityWriteOps
              /\ req[r].userId = activities[a].user_id
     /\ \A a \in DOMAIN activities \cap DOMAIN activities' :
          activities'[a].user_id = activities[a].user_id
     /\ \A r \in Slots :
          (req[r].pc = "act_find" /\ Steps(r)) =>
            LET id == req[r].activityId IN
            IF id \notin DOMAIN activities
              THEN /\ req'[r].pc = "done" /\ req'[r].res.status = "NotFound"
                   /\ activities' = activities
            ELSE IF activities[id].user_id # req[r].userId
              THEN /\ req'[r].pc = "done" /\ req'[r].res.status = "Forbidden"
                   /\ activities' = activities
            ELSE req'[r].pc \in {"act_save", "act_remove"}]_vars

\* Another account's remove of a stored activity was refused and the activity
\* is still stored as its owner created it.
C30_Witness ==
  \E r \in Slots :
    /\ req[r].pc = "done" /\ req[r].op = "removeActivity"
    /\ req[r].res.status = "Forbidden"
    /\ req[r].activityId \in DOMAIN activities
    /\ activities[req[r].activityId].user_id # req[r].userId
    /\ activities[req[r].activityId].title = CreateTitle

====
